---- MODULE Spec2Model ----
(***************************************************************************)
(* The interview gateway of hireready-backend as a state machine: the      *)
(* per-connection registry (activeSessions), the session objects, the live *)
(* transcription bridges, the start_interview and finalize                  *)
(* (autoProcessAnswer / processTranscript) handlers cut at their await      *)
(* points, and the persisted interviewSession rows.                         *)
(***************************************************************************)
EXTENDS Integers, Sequences, FiniteSets, TLC

\* ------------------------------------------------------------------ bounds
MaxSessions == 1
MaxBridges == 2
MaxFail == 1
MaxLen == 3
MaxInflight == 2
MaxQuestions == 3
MaxReply == 4

\* ------------------------------------------------------- program constants
MinQuestions == 3
MinAnswerLen == 3
FallbackQuestion == 0
GeneratedQuestion == -1
DefaultQuestions == 5

\* the socket ids, in the order of their first start_interview
Clients == {1, 2}
TotalChoices == MinQuestions..MaxQuestions
\* what the provider's reply parses to: fewer, as many, or more than asked
ParsedChoices(total) == {total - 1}

\* final-transcript fragments the bridge may deliver (text of alternatives[0])
Frags == {<<>>, <<" ">>, <<"a">>}

\* ----------------------------------------------------------- pure helpers
RECURSIVE TrimLeft(_)
TrimLeft(s) == IF s # <<>> /\ Head(s) = " " THEN TrimLeft(Tail(s)) ELSE s

RECURSIVE TrimRight(_)
TrimRight(s) ==
  IF s # <<>> /\ s[Len(s)] = " " THEN TrimRight(SubSeq(s, 1, Len(s) - 1)) ELSE s

\* String.prototype.trim
Trim(s) == TrimRight(TrimLeft(s))

\* an append without the separating space
AppendBare(transcript, text) == transcript \o text

\* session.transcript += (session.transcript ? ' ' : '') + text
AppendFragment(transcript, text) ==
  transcript \o (IF transcript # <<>> THEN <<" ">> ELSE <<>>) \o text

\* questions.slice(0, totalQuestions) after padding with the generic question
QuestionBank(total, parsed) ==
  [i \in 1..total |-> IF i <= parsed THEN i ELSE FallbackQuestion]

\* dto.totalQuestions || 5 on a validated dto (MinQuestions..10)
TotalOf(t) == IF t = 0 THEN DefaultQuestions ELSE t

\* ---------------------------------------------------------------- state
VARIABLES
  conn,            \* [Clients -> "open" | "closed"]: the socket of each client
  activeSessions,  \* [Clients -> session object id, 0 = no entry]
  sessions,        \* the ActiveSession objects ever created
  bridges,         \* the live STT connections ever created
  db,              \* the interviewSession rows
  starts,          \* [Clients -> the start_interview handler in flight]
  finalizes,       \* per session object: the autoProcessAnswer calls in flight
  failures,        \* collaborator failures so far (bounded by MaxFail)
  sends,           \* send calls that reached a bridge, counted modulo 2
  slots,           \* sessions the clients may still start (bounds the run)
  obs,             \* per session object: what was emitted / admitted for it
  out,             \* the outbound events the last step emitted, and their socket
  unhandled,       \* an exception left a handler or callback uncaught
  calc             \* the service call under check, when one is checked alone

prog == <<conn, activeSessions, sessions, bridges, db, starts, finalizes>>
env == <<failures, sends, slots>>
watch == <<obs, out, unhandled>>
NoOut == [client |-> 0, evs |-> <<>>]
vars == <<conn, activeSessions, sessions, bridges, db, starts, finalizes,
          failures, sends, slots, obs, out, unhandled, calc>>

SessIds == 1..Len(sessions)
BridgeIds == 1..Len(bridges)

\* a service call: its arguments, and its result once it has returned
NoCalc ==
  [op |-> "none", pc |-> "done", count |-> 0, lines |-> <<>>, bank |-> <<>>,
   cur |-> 0, total |-> 0, complete |-> FALSE]

IdleStart == [pc |-> "idle", total |-> 0, row |-> 0, sid |-> 0]

NewObs ==
  [admitted |-> 0, errors |-> 0, shown |-> 0, shownQ |-> FallbackQuestion,
   completed |-> 0, frags |-> <<>>]

Init ==
  /\ conn = [c \in Clients |-> "open"]
  /\ activeSessions = [c \in Clients |-> 0]
  /\ sessions = <<>>
  /\ bridges = <<>>
  /\ db = <<>>
  /\ starts = [c \in Clients |-> IdleStart]
  /\ finalizes = <<>>
  /\ failures = 0
  /\ sends = 0
  /\ slots = MaxSessions
  /\ obs = <<>>
  /\ out = NoOut
  /\ unhandled = FALSE
  /\ calc = NoCalc

\* ------------------------------------------------------- shared operators
CanFail(n) == failures + n <= MaxFail

\* client.emit(ev, ...) for each ev of evs, in order, on the socket of c
Emitted(c, evs) ==
  /\ out' = (IF evs = <<>> THEN NoOut ELSE [client |-> c, evs |-> evs])
  /\ UNCHANGED calc

\* a step that calls client.emit nowhere
Silent == out' = NoOut /\ UNCHANGED calc

\* the object createLiveConnection returns, wired by setupLiveSTT to session s
NewBridge(s) ==
  [sess |-> s, ready |-> "connecting", finished |-> FALSE, timer |-> FALSE]

\* a finish() that leaves the connection as it is
NoFinish(bs, b) == bs

\* liveSTT.finish(): clear the keep-alive interval, then connection.finish()
Finish(bs, b) == [bs EXCEPT ![b].finished = TRUE, ![b].timer = FALSE]

\* a gateway whose handlers never look at the flags
Unguarded(sess) == FALSE

\* the guard of onUtterance, autoProcessAnswer and handleFinishRecording
Guarded(sess) == sess.isFinalizing \/ sess.isProcessing

\* an onUtterance that tests only for the empty buffer
OnlyEmpty(transcript) == Trim(transcript) = <<>>

\* onUtterance: empty after trim, or fewer than 3 characters after trim
TooShort(transcript) ==
  Trim(transcript) = <<>> \/ Len(Trim(transcript)) < MinAnswerLen

\* autoProcessAnswer: const userAnswer = session.transcript.trim(); if (!userAnswer)
EmptyAnswer(transcript) == Trim(transcript) = <<>>

\* a handleAudioChunk without the isFinalizing return
ChunkForwarded(sess) == FALSE

\* handleAudioChunk: if (session.isFinalizing) return
ChunkDropped(sess) == sess.isFinalizing

\* the completion test of the deprecated processAudioInput (>= for >)
IsCompleteEarly(cur, total) == cur >= total

\* processTranscript: updatedSession.currentQuestion > updatedSession.totalQuestions
IsComplete(cur, total) == cur > total

\* autoProcessAnswer (catch): !session.liveSTT || connection.readyState !== 1
\* (1 is the ready state of an open connection)
NeedsRestart(sess) ==
  sess.liveSTT = 0 \/ bridges[sess.liveSTT].ready # "open"

\* addToHistory: history.push({ role, content }) and update
AddToHistory(rows, id, entry) ==
  [rows EXCEPT ![id].history = Append(@, entry)]

UserEntry(answer) == [role |-> "user", content |-> answer, q |-> GeneratedQuestion]
AssistantEntry(q) == [role |-> "assistant", content |-> <<>>, q |-> q]

RemoveAt(seq, i) == SubSeq(seq, 1, i - 1) \o SubSeq(seq, i + 1, Len(seq))

\* a client that has sent start_interview at least once and got a session or
\* has the handler in flight
Active(c) == starts[c].pc # "idle" \/ \E s \in SessIds : sessions[s].client = c

\* --------------------------------------------------------- start_interview
\* handleStartInterview up to its first await (interviewService.startInterview)
HandleStartInterview(c, t) ==
  /\ conn[c] = "open"
  /\ starts[c].pc = "idle"
  /\ \A d \in Clients : d < c => Active(d)
  /\ slots > 0
  /\ slots' = slots - 1
  /\ starts' = [starts EXCEPT ![c] = [IdleStart EXCEPT !.pc = "service", !.total = TotalOf(t)]]
  /\ UNCHANGED <<conn, activeSessions, sessions, bridges, db, finalizes>>
  /\ UNCHANGED <<failures, sends, obs, unhandled>>
  /\ Silent

NewRow(total, parsed) ==
  [totalQuestions |-> total, currentQuestion |-> 1, status |-> "in_progress",
   history |-> <<>>, questions |-> QuestionBank(total, parsed)]

\* startInterview throws (generation or create failed, or addToHistory failed
\* after the row was created); handleStartInterview's catch emits the error
StartServiceFail(c) ==
  /\ starts[c].pc = "service"
  /\ CanFail(1)
  /\ failures' = failures + 1
  /\ \/ db' = db
     \/ \E k \in ParsedChoices(starts[c].total) :
          db' = Append(db, NewRow(starts[c].total, k))
  /\ starts' = [starts EXCEPT ![c] = IdleStart]
  /\ Emitted(c, <<"interview_error">>)
  /\ UNCHANGED <<conn, activeSessions, sessions, bridges, finalizes, sends, slots, obs, unhandled>>

\* a session object created with isProcessing already set
NewSessionBusy(c, row) ==
  [client |-> c, sessionId |-> row, liveSTT |-> 0, transcript |-> <<>>,
   isProcessing |-> TRUE, isFinalizing |-> FALSE]

NewSession(c, row) ==
  [client |-> c, sessionId |-> row, liveSTT |-> 0, transcript |-> <<>>,
   isProcessing |-> FALSE, isFinalizing |-> FALSE]

\* startInterview returns; the session is registered, the bridge is set up and
\* interview_started is emitted; the handler then awaits the first synthesis
StartServiceOk(c) ==
  /\ starts[c].pc = "service"
  /\ \E k \in ParsedChoices(starts[c].total) :
       LET row == Len(db) + 1
           sid == Len(sessions) + 1
           bank == QuestionBank(starts[c].total, k)
       IN /\ db' = AddToHistory(Append(db, NewRow(starts[c].total, k)), row,
                                AssistantEntry(bank[1]))
          /\ activeSessions' = [activeSessions EXCEPT ![c] = sid]
          /\ finalizes' = Append(finalizes, <<>>)
          /\ \/ /\ Len(bridges) < MaxBridges
                /\ bridges' = Append(bridges, NewBridge(sid))
                /\ sessions' = Append(sessions,
                      [NewSession(c, row) EXCEPT !.liveSTT = Len(bridges) + 1])
                /\ obs' = Append(obs, [NewObs EXCEPT !.shown = 1, !.shownQ = bank[1]])
                /\ starts' = [starts EXCEPT ![c].pc = "tts", ![c].row = row, ![c].sid = sid]
                /\ Emitted(c, <<"interview_started">>)
                /\ UNCHANGED failures
             \/ /\ UNCHANGED failures
                /\ bridges' = bridges
                /\ sessions' = Append(sessions, NewSession(c, row))
                /\ obs' = Append(obs, NewObs)
                /\ starts' = [starts EXCEPT ![c] = IdleStart]
                /\ Emitted(c, <<"interview_error">>)
  /\ UNCHANGED <<conn, sends, slots, unhandled>>

\* the first question's textToSpeech resolves or rejects
StartTts(c) ==
  /\ starts[c].pc = "tts"
  /\ \/ /\ Emitted(c, <<"question_audio">>)
        /\ UNCHANGED failures
     \/ /\ CanFail(1)
        /\ failures' = failures + 1
        /\ Emitted(c, <<"interview_error">>)
  /\ starts' = [starts EXCEPT ![c] = IdleStart]
  /\ UNCHANGED <<conn, activeSessions, sessions, bridges, db, finalizes, sends, slots, obs, unhandled>>

\* a handler or callback that returns without touching anything
Skip == UNCHANGED <<prog, env, obs, unhandled>> /\ Silent

\* ------------------------------------------------------------ the finalize
\* an admission that sets isFinalizing and forgets isProcessing
AdmitHalf(s, via) ==
  /\ Len(finalizes[s]) < MaxInflight
  /\ sessions' = [sessions EXCEPT ![s].isFinalizing = TRUE]
  /\ finalizes' = [finalizes EXCEPT ![s] = Append(@,
        [pc |-> "record", answer |-> Trim(sessions[s].transcript), via |-> via,
         cur |-> 0, total |-> 0, q |-> GeneratedQuestion, recorded |-> 0,
         read |-> <<>>])]
  /\ obs' = [obs EXCEPT ![s].admitted = @ + 1]
  /\ UNCHANGED <<conn, activeSessions, bridges, db, starts>>
  /\ UNCHANGED <<env, unhandled>>
  /\ Silent

\* autoProcessAnswer past its guard: both flags are set and the trimmed
\* transcript is passed to processTranscript, whose first await is pending
Admit(s, via) ==
  /\ Len(finalizes[s]) < MaxInflight
  /\ sessions' = [sessions EXCEPT ![s].isFinalizing = TRUE, ![s].isProcessing = TRUE]
  /\ finalizes' = [finalizes EXCEPT ![s] = Append(@,
        [pc |-> "record", answer |-> Trim(sessions[s].transcript), via |-> via,
         cur |-> 0, total |-> 0, q |-> GeneratedQuestion, recorded |-> 0,
         read |-> <<>>])]
  /\ obs' = [obs EXCEPT ![s].admitted = @ + 1]
  /\ UNCHANGED <<conn, activeSessions, bridges, db, starts>>
  /\ UNCHANGED <<env, unhandled>>
  /\ Silent

\* autoProcessAnswer from its first line: the guard, the empty-answer return
\* (flags set and cleared again in the same turn of the event loop), or Admit
AutoProcessAnswer(s, via) ==
  IF Guarded(sessions[s]) \/ EmptyAnswer(sessions[s].transcript)
  THEN Skip
  ELSE Admit(s, via)

\* autoProcessAnswer's catch block for the call i of session s, after n
\* collaborator failures in this step
Catch(s, i, n) ==
  LET sess == sessions[s]
      c == sess.client
      p == finalizes[s][i]
      cleared == [sessions EXCEPT ![s].isProcessing = FALSE, ![s].isFinalizing = FALSE]
  IN /\ finalizes' = [finalizes EXCEPT ![s] = RemoveAt(@, i)]
     /\ failures' = failures + n
     /\ obs' = [obs EXCEPT ![s].errors = @ + 1]
     /\ UNCHANGED <<conn, activeSessions, starts, sends, slots>>
     /\ IF NeedsRestart(sess)
        THEN \/ /\ Len(bridges) < MaxBridges
                /\ bridges' = Append(bridges, NewBridge(s))
                /\ sessions' = [cleared EXCEPT ![s].liveSTT = Len(bridges) + 1]
                /\ Emitted(c, <<"interview_error">>)
                /\ UNCHANGED unhandled
             \/ /\ bridges' = bridges
                /\ sessions' = cleared
                /\ IF p.via = "manual"
                   THEN /\ Emitted(c, <<"interview_error">>)
                        /\ UNCHANGED unhandled
                   ELSE /\ Silent
                        /\ unhandled' = TRUE
        ELSE /\ bridges' = bridges
             /\ sessions' = cleared
             /\ Emitted(c, <<"interview_error">>)
             /\ UNCHANGED unhandled

\* a completion that clears the flags as an ordinary turn does
ResolveAndClear(s, i, complete) ==
  LET sess == sessions[s]
      c == sess.client
      p == finalizes[s][i]
      cleared == [sessions EXCEPT ![s].transcript = <<>>,
                                  ![s].isProcessing = FALSE,
                                  ![s].isFinalizing = FALSE]
  IN /\ finalizes' = [finalizes EXCEPT ![s] = RemoveAt(@, i)]
     /\ UNCHANGED <<conn, starts, env, unhandled>>
     /\ sessions' = cleared
     /\ IF complete
        THEN /\ bridges' = IF sess.liveSTT # 0 THEN Finish(bridges, sess.liveSTT) ELSE bridges
             /\ activeSessions' = [activeSessions EXCEPT ![c] = 0]
             /\ obs' = [obs EXCEPT ![s].completed = @ + 1, ![s].frags = <<>>]
             /\ Emitted(c, <<"answer_saved", "interview_completed">>)
        ELSE /\ UNCHANGED <<bridges, activeSessions>>
             /\ obs' = [obs EXCEPT ![s].shown = p.cur, ![s].shownQ = p.q,
                                   ![s].frags = <<>>]
             /\ Emitted(c, <<"answer_saved", "next_question", "question_audio">>)

\* autoProcessAnswer after processTranscript returned result r
Resolve(s, i, complete) ==
  LET sess == sessions[s]
      c == sess.client
      p == finalizes[s][i]
  IN /\ finalizes' = [finalizes EXCEPT ![s] = RemoveAt(@, i)]
     /\ UNCHANGED <<conn, starts, env, unhandled>>
     /\ IF complete
        THEN /\ sessions' = [sessions EXCEPT ![s].transcript = <<>>]
             /\ bridges' = IF sess.liveSTT # 0 THEN Finish(bridges, sess.liveSTT) ELSE bridges
             /\ activeSessions' = [activeSessions EXCEPT ![c] = 0]
             /\ obs' = [obs EXCEPT ![s].completed = @ + 1, ![s].frags = <<>>]
             /\ Emitted(c, <<"answer_saved", "interview_completed">>)
        ELSE /\ sessions' = [sessions EXCEPT ![s].transcript = <<>>,
                                             ![s].isProcessing = FALSE,
                                             ![s].isFinalizing = FALSE]
             /\ UNCHANGED <<bridges, activeSessions>>
             /\ obs' = [obs EXCEPT ![s].shown = p.cur, ![s].shownQ = p.q,
                                   ![s].frags = <<>>]
             /\ Emitted(c, <<"answer_saved", "next_question", "question_audio">>)

\* processTranscript step 1: addToHistory(sessionId, 'user', userAnswer)
FinRecord(s, i) ==
  /\ finalizes[s][i].pc = "record"
  /\ \/ /\ db' = AddToHistory(db, sessions[s].sessionId, UserEntry(finalizes[s][i].answer))
        /\ finalizes' = [finalizes EXCEPT ![s][i].pc = "advance", ![s][i].recorded = @ + 1]
        /\ UNCHANGED <<conn, activeSessions, sessions, bridges, starts, env, obs, unhandled>>
        /\ Silent
     \/ /\ CanFail(1)
        /\ db' = db
        /\ Catch(s, i, 1)

\* the question processTranscript picks after the index update
NextQuestion(row) ==
  IF row.currentQuestion \in DOMAIN row.questions
  THEN row.questions[row.currentQuestion]
  ELSE GeneratedQuestion

\* processTranscript step 2: findUnique, then update currentQuestion + 1
FinAdvance(s, i) ==
  /\ finalizes[s][i].pc = "advance"
  /\ \/ LET id == sessions[s].sessionId
            rows == [db EXCEPT ![id].currentQuestion = @ + 1]
            row == rows[id]
        IN /\ db' = rows
           /\ finalizes' = [finalizes EXCEPT
                 ![s][i].pc = IF IsComplete(row.currentQuestion, row.totalQuestions)
                              THEN "mark" ELSE "assistant",
                 ![s][i].cur = row.currentQuestion,
                 ![s][i].total = row.totalQuestions,
                 ![s][i].q = NextQuestion(row)]
           /\ UNCHANGED <<conn, activeSessions, sessions, bridges, starts, env, obs, unhandled>>
        /\ Silent
     \/ /\ CanFail(1)
        /\ db' = db
        /\ Catch(s, i, 1)

\* processTranscript step 3, complete: update status 'completed', return
FinMark(s, i) ==
  /\ finalizes[s][i].pc = "mark"
  /\ \/ /\ db' = [db EXCEPT ![sessions[s].sessionId].status = "completed"]
        /\ Resolve(s, i, TRUE)
     \/ /\ CanFail(1)
        /\ db' = db
        /\ Catch(s, i, 1)

\* processTranscript step 4: addToHistory(sessionId, 'assistant', nextQuestion)
FinAssistant(s, i) ==
  /\ finalizes[s][i].pc = "assistant"
  /\ \/ /\ db' = AddToHistory(db, sessions[s].sessionId, AssistantEntry(finalizes[s][i].q))
        /\ finalizes' = [finalizes EXCEPT ![s][i].pc = "tts"]
        /\ UNCHANGED <<conn, activeSessions, sessions, bridges, starts, env, obs, unhandled>>
        /\ Silent
     \/ /\ CanFail(1)
        /\ db' = db
        /\ Catch(s, i, 1)

\* processTranscript step 5: textToSpeech(nextQuestion), return
FinTts(s, i) ==
  /\ finalizes[s][i].pc = "tts"
  /\ db' = db
  /\ \/ Resolve(s, i, FALSE)
     \/ /\ CanFail(1)
        /\ Catch(s, i, 1)

\* ------------------------------------------------------- bridge callbacks
\* LiveTranscriptionEvents.Open: the keep-alive interval is started
BridgeOpen(b) ==
  /\ bridges[b].ready = "connecting"
  /\ bridges' = [bridges EXCEPT ![b].ready = "open", ![b].timer = TRUE]
  /\ UNCHANGED <<conn, activeSessions, sessions, db, starts, finalizes, env, obs, unhandled>>
  /\ Silent

\* LiveTranscriptionEvents.Close: the connection is gone, the interval cleared
BridgeClose(b) ==
  /\ bridges[b].ready # "closed"
  /\ bridges' = [bridges EXCEPT ![b].ready = "closed", ![b].timer = FALSE]
  /\ UNCHANGED <<conn, activeSessions, sessions, db, starts, finalizes, env, obs, unhandled>>
  /\ Silent

\* onTranscript with is_final: a non-empty text is appended and echoed
FinalTranscript(b, text) ==
  LET s == bridges[b].sess
      joined == AppendFragment(sessions[s].transcript, text)
  IN /\ bridges[b].ready = "open"
     /\ Len(joined) <= MaxLen
     /\ IF text # <<>>
        THEN /\ sessions' = [sessions EXCEPT ![s].transcript = joined]
             /\ obs' = [obs EXCEPT ![s].frags = Append(@, text)]
             /\ Emitted(sessions[s].client, <<"interim_transcript">>)
        ELSE /\ UNCHANGED <<sessions, obs>>
             /\ Emitted(sessions[s].client, <<>>)
     /\ UNCHANGED <<conn, activeSessions, bridges, db, starts, finalizes, env, unhandled>>

\* onTranscript without is_final: echoed only
InterimTranscript(b, text) ==
  LET s == bridges[b].sess
  IN /\ bridges[b].ready = "open"
     /\ Emitted(sessions[s].client, IF text # <<>> THEN <<"interim_transcript">> ELSE <<>>)
     /\ UNCHANGED <<prog, env, obs, unhandled>>

\* onUtterance (UtteranceEnd after the pause)
Utterance(b) ==
  LET s == bridges[b].sess
  IN /\ bridges[b].ready = "open"
     /\ IF Guarded(sessions[s]) \/ TooShort(sessions[s].transcript)
        THEN Skip
        ELSE AutoProcessAnswer(s, "utterance")

\* ------------------------------------------------------ the other handlers
\* liveSTT.send on a connection that is not open may throw
SendMayThrow(b) == bridges[b].ready # "open"

\* handleAudioChunk, in a run that creates at most cap bridges
AudioChunk(c, cap) ==
  LET s == activeSessions[c]
      sess == sessions[s]
  IN /\ conn[c] = "open"
     /\ IF s = 0 \/ ChunkDropped(sess) \/ sess.liveSTT = 0
        THEN Skip
        ELSE /\ sends' = (sends + 1) % 2
             /\ UNCHANGED <<conn, activeSessions, db, starts, finalizes, failures, slots, obs, unhandled>>
             /\ Silent
             /\ \/ UNCHANGED <<bridges, sessions>>
                \/ /\ SendMayThrow(sess.liveSTT)
                   /\ Len(bridges) < cap
                   /\ bridges' = Append(bridges, NewBridge(s))
                   /\ sessions' = [sessions EXCEPT ![s].liveSTT = Len(bridges) + 1]

HandleAudioChunk(c) == AudioChunk(c, MaxBridges)

HandleFinishRecording(c) ==
  LET s == activeSessions[c]
  IN /\ conn[c] = "open"
     /\ IF s = 0 \/ Guarded(sessions[s])
        THEN Skip
        ELSE AutoProcessAnswer(s, "manual")

\* a get_history that also drops the caller's registry entry
GetHistoryAndForget(c, id) ==
  /\ conn[c] = "open"
  /\ Emitted(c, IF id \in DOMAIN db THEN <<"interview_history">> ELSE <<"interview_error">>)
  /\ activeSessions' = [activeSessions EXCEPT ![c] = 0]
  /\ UNCHANGED <<conn, sessions, bridges, db, starts, finalizes, env, obs, unhandled>>

\* get_history for row id (0: an id no row has)
HandleGetHistory(c, id) ==
  /\ conn[c] = "open"
  /\ Emitted(c, IF id \in DOMAIN db THEN <<"interview_history">> ELSE <<"interview_error">>)
  /\ UNCHANGED <<prog, env, obs, unhandled>>

HandleDisconnect(c) ==
  LET s == activeSessions[c]
  IN /\ conn[c] = "open"
     /\ Active(c)
     /\ conn' = [conn EXCEPT ![c] = "closed"]
     /\ IF s # 0
        THEN /\ bridges' = IF sessions[s].liveSTT # 0
                           THEN Finish(bridges, sessions[s].liveSTT) ELSE bridges
             /\ activeSessions' = [activeSessions EXCEPT ![c] = 0]
        ELSE UNCHANGED <<bridges, activeSessions>>
     /\ UNCHANGED <<sessions, db, starts, finalizes, env, obs, unhandled>>
     /\ Silent

\* ------------------------------------------------------------ the system
\* one connection's interview: every handler and callback that changes state
Next ==
  \/ \E c \in Clients, t \in TotalChoices : HandleStartInterview(c, t)
  \/ \E c \in Clients : StartServiceFail(c)
  \/ \E c \in Clients : StartServiceOk(c)
  \/ \E c \in Clients : StartTts(c)
  \/ \E s \in SessIds : \E i \in 1..Len(finalizes[s]) : FinRecord(s, i)
  \/ \E s \in SessIds : \E i \in 1..Len(finalizes[s]) : FinAdvance(s, i)
  \/ \E s \in SessIds : \E i \in 1..Len(finalizes[s]) : FinMark(s, i)
  \/ \E s \in SessIds : \E i \in 1..Len(finalizes[s]) : FinAssistant(s, i)
  \/ \E s \in SessIds : \E i \in 1..Len(finalizes[s]) : FinTts(s, i)
  \/ \E b \in BridgeIds : BridgeOpen(b)
  \/ \E b \in BridgeIds : BridgeClose(b)
  \/ \E b \in BridgeIds, text \in Frags : FinalTranscript(b, text)
  \/ \E b \in BridgeIds : Utterance(b)
  \/ \E c \in Clients : HandleAudioChunk(c)
  \/ \E c \in Clients : HandleFinishRecording(c)
  \/ \E c \in Clients : HandleDisconnect(c)

Spec == Init /\ [][Next]_vars

\* every handler and callback, those that only answer the client included,
\* without the failure of startInterview
NextInfo ==
  \/ \E c \in Clients, t \in TotalChoices : HandleStartInterview(c, t)
  \/ \E c \in Clients : StartServiceOk(c)
  \/ \E c \in Clients : StartTts(c)
  \/ \E s \in SessIds : \E i \in 1..Len(finalizes[s]) : FinRecord(s, i)
  \/ \E s \in SessIds : \E i \in 1..Len(finalizes[s]) : FinAdvance(s, i)
  \/ \E s \in SessIds : \E i \in 1..Len(finalizes[s]) : FinMark(s, i)
  \/ \E s \in SessIds : \E i \in 1..Len(finalizes[s]) : FinAssistant(s, i)
  \/ \E s \in SessIds : \E i \in 1..Len(finalizes[s]) : FinTts(s, i)
  \/ \E b \in BridgeIds : BridgeOpen(b)
  \/ \E b \in BridgeIds : BridgeClose(b)
  \/ \E b \in BridgeIds, text \in Frags : FinalTranscript(b, text)
  \/ \E b \in BridgeIds, text \in Frags : InterimTranscript(b, text)
  \/ \E b \in BridgeIds : Utterance(b)
  \/ \E c \in Clients : HandleAudioChunk(c)
  \/ \E c \in Clients : HandleFinishRecording(c)
  \/ \E c \in Clients, id \in 0..MaxSessions : HandleGetHistory(c, id)
  \/ \E c \in Clients : HandleDisconnect(c)

\* two sessions at once, on one socket or on two: every collaborator call
\* to the database, the question generator and the synthesiser succeeds, only
\* the first session's candidate speaks, no audio is sent and
\* the provider closes no bridge
InitPair ==
  /\ conn = [c \in Clients |-> "open"]
  /\ activeSessions = [c \in Clients |-> 0]
  /\ sessions = <<>>
  /\ bridges = <<>>
  /\ db = <<>>
  /\ starts = [c \in Clients |-> IdleStart]
  /\ finalizes = <<>>
  /\ failures = MaxFail
  /\ sends = 0
  /\ slots = MaxSessions + 1
  /\ obs = <<>>
  /\ out = NoOut
  /\ unhandled = FALSE
  /\ calc = NoCalc

First(b) == bridges[b].sess = 1

NextPair ==
  \/ \E c \in Clients, t \in TotalChoices : HandleStartInterview(c, t)
  \/ \E c \in Clients : StartServiceOk(c)
  \/ \E c \in Clients : StartTts(c)
  \/ \E s \in SessIds : \E i \in 1..Len(finalizes[s]) : FinRecord(s, i)
  \/ \E s \in SessIds : \E i \in 1..Len(finalizes[s]) : FinAdvance(s, i)
  \/ \E s \in SessIds : \E i \in 1..Len(finalizes[s]) : FinMark(s, i)
  \/ \E s \in SessIds : \E i \in 1..Len(finalizes[s]) : FinAssistant(s, i)
  \/ \E s \in SessIds : \E i \in 1..Len(finalizes[s]) : FinTts(s, i)
  \/ \E b \in BridgeIds : BridgeOpen(b)
  \/ \E b \in BridgeIds, text \in Frags : First(b) /\ FinalTranscript(b, text)
  \/ \E b \in BridgeIds : First(b) /\ Utterance(b)
  \/ \E c \in Clients : HandleFinishRecording(c)
  \/ \E c \in Clients : HandleDisconnect(c)

SpecPair == InitPair /\ [][NextPair]_vars

\* one session whose client streams audio while the bridge comes and goes:
\* no answer is finalized, no collaborator call fails, and one more bridge
\* than elsewhere may be created
InitAudio ==
  /\ conn = [c \in Clients |-> "open"]
  /\ activeSessions = [c \in Clients |-> 0]
  /\ sessions = <<>>
  /\ bridges = <<>>
  /\ db = <<>>
  /\ starts = [c \in Clients |-> IdleStart]
  /\ finalizes = <<>>
  /\ failures = MaxFail
  /\ sends = 0
  /\ slots = MaxSessions
  /\ obs = <<>>
  /\ out = NoOut
  /\ unhandled = FALSE
  /\ calc = NoCalc

NextAudio ==
  \/ \E c \in Clients, t \in TotalChoices : HandleStartInterview(c, t)
  \/ \E c \in Clients : StartServiceOk(c)
  \/ \E c \in Clients : StartTts(c)
  \/ \E b \in BridgeIds : BridgeOpen(b)
  \/ \E b \in BridgeIds : BridgeClose(b)
  \/ \E b \in BridgeIds, text \in Frags : FinalTranscript(b, text)
  \/ \E c \in Clients : AudioChunk(c, MaxBridges + 1)
  \/ \E c \in Clients : HandleDisconnect(c)

SpecAudio == InitAudio /\ [][NextAudio]_vars

\* ------------------------------------------------- service calls alone
\* the texts a provider line may carry after its numbering
QuestionTexts == {1, 2}

\* a line of the provider's reply: numbered ("1. ...") or not, with the text
\* left after the numbering and the blanks are removed (<<>>: none)
Lines ==
  {[numbered |-> n, text |-> t] :
     n \in BOOLEAN, t \in {<<>>} \cup {<<q>> : q \in QuestionTexts}}

RECURSIVE Replies(_)
Replies(n) ==
  IF n = 0 THEN {<<>>}
  ELSE Replies(n - 1) \cup
       {Append(r, l) : r \in {x \in Replies(n - 1) : Len(x) = n - 1}, l \in Lines}

IsNumbered(l) == l.numbered
HasText(q) == q # <<>>

\* split('\n').filter(numbered).map(strip numbering, trim).filter(non-empty)
ParseQuestions(lines) ==
  LET kept == SelectSeq(lines, IsNumbered)
      texts == SelectSeq([i \in 1..Len(kept) |-> kept[i].text], HasText)
  IN [i \in 1..Len(texts) |-> texts[i][1]]

\* while (questions.length < totalQuestions) questions.push(generic question)
RECURSIVE Pad(_, _)
Pad(questions, total) ==
  IF Len(questions) < total
  THEN Pad(Append(questions, FallbackQuestion), total)
  ELSE questions

\* Array.prototype.slice(0, n) for n >= 0
Slice(questions, n) ==
  SubSeq(questions, 1, IF n < Len(questions) THEN n ELSE Len(questions))

\* a generateAllQuestions that returns every parsed question
GenerateUnsliced(total, lines) == Pad(ParseQuestions(lines), total)

GenerateAllQuestions(total, lines) ==
  Slice(Pad(ParseQuestions(lines), total), total)

\* processAudioInput: updatedSession.currentQuestion >= updatedSession.totalQuestions
IsCompleteAudio(cur, total) == cur >= total

Advancing == {"processTranscript", "processAudioInput"}

GenerateCalls ==
  {[NoCalc EXCEPT !.op = "generateAllQuestions", !.pc = "called",
                  !.count = n, !.lines = r] :
     n \in 1..MaxQuestions, r \in Replies(MaxReply)}

AdvanceCalls ==
  {[NoCalc EXCEPT !.op = o, !.pc = "called", !.cur = k, !.total = t] :
     o \in Advancing, t \in TotalChoices, k \in 1..MaxQuestions}

InitCalls ==
  /\ conn = [c \in Clients |-> "open"]
  /\ activeSessions = [c \in Clients |-> 0]
  /\ sessions = <<>>
  /\ bridges = <<>>
  /\ db = <<>>
  /\ starts = [c \in Clients |-> IdleStart]
  /\ finalizes = <<>>
  /\ failures = 0
  /\ sends = 0
  /\ slots = MaxSessions
  /\ obs = <<>>
  /\ out = NoOut
  /\ unhandled = FALSE
  /\ calc \in GenerateCalls \cup AdvanceCalls

\* generateAllQuestions returns for a reply the provider sent successfully
GenerateReturns ==
  /\ calc.op = "generateAllQuestions" /\ calc.pc = "called"
  /\ calc' = [calc EXCEPT !.pc = "done",
                          !.bank = GenerateAllQuestions(calc.count, calc.lines)]
  /\ UNCHANGED <<prog, env, obs, out, unhandled>>

\* processTranscript: the index update and the completion test
ProcessTranscriptAdvances ==
  /\ calc.op = "processTranscript" /\ calc.pc = "called"
  /\ calc' = [calc EXCEPT !.pc = "done", !.cur = @ + 1,
                          !.complete = IsComplete(calc.cur + 1, calc.total)]
  /\ UNCHANGED <<prog, env, obs, out, unhandled>>

\* processAudioInput: the index update and the completion test
ProcessAudioInputAdvances ==
  /\ calc.op = "processAudioInput" /\ calc.pc = "called"
  /\ calc' = [calc EXCEPT !.pc = "done", !.cur = @ + 1,
                          !.complete = IsCompleteAudio(calc.cur + 1, calc.total)]
  /\ UNCHANGED <<prog, env, obs, out, unhandled>>

NextCalls ==
  \/ GenerateReturns
  \/ ProcessTranscriptAdvances
  \/ ProcessAudioInputAdvances

SpecCalls == InitCalls /\ [][NextCalls]_vars

\* one connection's interview with the handlers that only answer the client,
\* in a run where no collaborator call fails
SpecInfo == InitAudio /\ [][NextInfo]_vars


\* ------------------------------------------- addToHistory, read then write
\* an update that writes the history back as it was read
UpdateWithoutPush(rows, id, read, entry) ==
  [rows EXCEPT ![id].history = read]

\* addToHistory: history.push({ role, content }) on the history findUnique
\* returned, then update({ data: { history } })
UpdateHistory(rows, id, read, entry) ==
  [rows EXCEPT ![id].history = Append(read, entry)]

\* addToHistory up to its update: findUnique resolves with the row
ReadHistory(s, i, from, to) ==
  /\ finalizes[s][i].pc = from
  /\ db' = db
  /\ \/ /\ finalizes' = [finalizes EXCEPT ![s][i].pc = to,
                                          ![s][i].read = db[sessions[s].sessionId].history]
        /\ UNCHANGED <<conn, activeSessions, sessions, bridges, starts, env, obs, unhandled>>
        /\ Silent
     \/ /\ CanFail(1)
        /\ Catch(s, i, 1)

\* processTranscript step 1, first half
FinRecordRead(s, i) == ReadHistory(s, i, "record", "recordWrite")

\* processTranscript step 1, second half: the update resolves or rejects
FinRecordWrite(s, i) ==
  /\ finalizes[s][i].pc = "recordWrite"
  /\ \/ /\ db' = UpdateHistory(db, sessions[s].sessionId, finalizes[s][i].read,
                              UserEntry(finalizes[s][i].answer))
        /\ finalizes' = [finalizes EXCEPT ![s][i].pc = "advance", ![s][i].recorded = @ + 1]
        /\ UNCHANGED <<conn, activeSessions, sessions, bridges, starts, env, obs, unhandled>>
        /\ Silent
     \/ /\ CanFail(1)
        /\ db' = db
        /\ Catch(s, i, 1)

\* processTranscript step 4, first half
FinAssistantRead(s, i) == ReadHistory(s, i, "assistant", "assistantWrite")

\* processTranscript step 4, second half
FinAssistantWrite(s, i) ==
  /\ finalizes[s][i].pc = "assistantWrite"
  /\ \/ /\ db' = UpdateHistory(db, sessions[s].sessionId, finalizes[s][i].read,
                              AssistantEntry(finalizes[s][i].q))
        /\ finalizes' = [finalizes EXCEPT ![s][i].pc = "tts"]
        /\ UNCHANGED <<conn, activeSessions, sessions, bridges, starts, env, obs, unhandled>>
        /\ Silent
     \/ /\ CanFail(1)
        /\ db' = db
        /\ Catch(s, i, 1)

\* one connection's interview with each append of a finalize in its two awaits
NextHistory ==
  \/ \E c \in Clients, t \in TotalChoices : HandleStartInterview(c, t)
  \/ \E c \in Clients : StartServiceFail(c)
  \/ \E c \in Clients : StartServiceOk(c)
  \/ \E c \in Clients : StartTts(c)
  \/ \E s \in SessIds : \E i \in 1..Len(finalizes[s]) : FinRecordRead(s, i)
  \/ \E s \in SessIds : \E i \in 1..Len(finalizes[s]) : FinRecordWrite(s, i)
  \/ \E s \in SessIds : \E i \in 1..Len(finalizes[s]) : FinAdvance(s, i)
  \/ \E s \in SessIds : \E i \in 1..Len(finalizes[s]) : FinMark(s, i)
  \/ \E s \in SessIds : \E i \in 1..Len(finalizes[s]) : FinAssistantRead(s, i)
  \/ \E s \in SessIds : \E i \in 1..Len(finalizes[s]) : FinAssistantWrite(s, i)
  \/ \E s \in SessIds : \E i \in 1..Len(finalizes[s]) : FinTts(s, i)
  \/ \E b \in BridgeIds : BridgeOpen(b)
  \/ \E b \in BridgeIds : BridgeClose(b)
  \/ \E b \in BridgeIds, text \in Frags : FinalTranscript(b, text)
  \/ \E b \in BridgeIds : Utterance(b)
  \/ \E c \in Clients : HandleAudioChunk(c)
  \/ \E c \in Clients : HandleFinishRecording(c)
  \/ \E c \in Clients : HandleDisconnect(c)

SpecHistory == Init /\ [][NextHistory]_vars

\* ------------------------------------------------------------- properties
Flagged(s) == sessions[s].isProcessing \/ sessions[s].isFinalizing
Admitted(s) == Len(finalizes'[s]) > Len(finalizes[s])
Ended(s) == Len(finalizes'[s]) < Len(finalizes[s])
Row(s) == db[sessions[s].sessionId]
Completed(s) == Row(s).status = "completed"

\* C1: a session has at most one finalize in flight, both flags are true while
\* it is, and no trigger is admitted in a state where a flag is true
C1_OneFinalizeInFlight ==
  /\ [](\A s \in SessIds :
          /\ Len(finalizes[s]) <= 1
          /\ Len(finalizes[s]) = 1 =>
               sessions[s].isProcessing /\ sessions[s].isFinalizing)
  /\ [][\A s \in SessIds : Flagged(s) => ~Admitted(s)]_vars

\* C1: the second turn's finalize is in flight, the buffer is long enough and
\* the bridge and the socket are open, so that only the flags stop a trigger
C1_SecondTurnInFlight ==
  \E s \in SessIds :
    /\ Len(finalizes[s]) = 1
    /\ obs[s].admitted = 2
    /\ ~TooShort(sessions[s].transcript)
    /\ sessions[s].liveSTT # 0
    /\ bridges[sessions[s].liveSTT].ready = "open"
    /\ activeSessions[sessions[s].client] = s

\* C2: every finalize in flight was started on a buffer of at least 3
\* characters after trimming, whichever trigger started it
C2_ShortNeverAdmitted ==
  \A s \in SessIds : \A i \in 1..Len(finalizes[s]) :
    Len(finalizes[s][i].answer) >= MinAnswerLen

\* C3: every persisted row has 1 <= currentQuestion <= totalQuestions + 1
C3_IndexInRange ==
  \A id \in DOMAIN db :
    1 <= db[id].currentQuestion /\ db[id].currentQuestion <= db[id].totalQuestions + 1

C5_IndicesInOrder ==
  /\ [][\A s \in SessIds :
          obs'[s].shown # obs[s].shown =>
            /\ obs'[s].shown = obs[s].shown + 1
            /\ obs'[s].shownQ = Row(s).questions[obs'[s].shown]]_vars
  /\ [](\A s \in SessIds :
          obs[s].completed > 0 => obs[s].admitted = Row(s).totalQuestions)

\* C6: an audio_chunk handled while isFinalizing is true calls send on no
\* bridge and changes nothing the gateway holds
C6_NoSendWhileFinalizing ==
  [][\A c \in Clients :
       (/\ activeSessions[c] # 0
        /\ sessions[activeSessions[c]].isFinalizing
        /\ HandleAudioChunk(c)) => UNCHANGED <<prog, sends>>]_vars

\* C6: a client whose session is finalizing and whose bridge is open, so that
\* a chunk would reach send but for the flag
C6_ChunkWhileFinalizing ==
  \E c \in Clients :
    /\ conn[c] = "open"
    /\ activeSessions[c] # 0
    /\ sessions[activeSessions[c]].isFinalizing
    /\ Len(finalizes[activeSessions[c]]) = 1
    /\ sessions[activeSessions[c]].liveSTT # 0
    /\ bridges[sessions[activeSessions[c]].liveSTT].ready = "open"

\* C7: a finalize that ends after its socket disconnected, by completing or
\* by failing, emits no event on that socket
C7_NoEmitAfterDisconnect ==
  [][\A s \in SessIds :
       Ended(s) /\ conn[sessions[s].client] = "closed" => out' = NoOut]_vars

\* C8: a finalize that ends in a provider failure emits interview_error, leaves
\* both flags false, and has recorded its answer once when the failure came
\* after the persistence writes
C8_FailureSurfaced ==
  [][\A s \in SessIds :
       Ended(s) /\ failures' > failures =>
         /\ out'.client = sessions[s].client
         /\ out'.evs = <<"interview_error">>
         /\ ~sessions'[s].isProcessing /\ ~sessions'[s].isFinalizing
         /\ \A i \in 1..Len(finalizes[s]) :
              finalizes[s][i].pc = "tts" => finalizes[s][i].recorded = 1]_vars

\* C9: no exception leaves a handler or a bridge callback uncaught
C9_NothingUnhandled == unhandled = FALSE

\* C10: a step in which one session acts leaves every other session's flags,
\* buffer, bridge handle, registry entry and persisted index unchanged
Record(t) ==
  <<sessions[t], activeSessions[sessions[t].client] = t, Row(t).currentQuestion>>
Acts(s) ==
  \/ s \notin SessIds
  \/ finalizes'[s] # finalizes[s]
  \/ Record(s)' # Record(s)
C10_Isolation ==
  [][\A s \in 1..Len(sessions'), t \in SessIds :
       s # t /\ Acts(s) => Record(t)' = Record(t)]_vars

\* a bridge on which neither finish() was called nor the Close event fired
Live(b) == ~bridges[b].finished /\ bridges[b].ready # "closed"
BridgesOf(s) == {b \in BridgeIds : bridges[b].sess = s}

\* C11: a session never has two bridges that are neither finished nor closed
C11_OneLiveBridge ==
  \A s \in SessIds : Cardinality({b \in BridgesOf(s) : Live(b)}) <= 1

\* C12: once a socket has disconnected, no bridge of its sessions is live and
\* none has a keep-alive timer running
C12_NoBridgeAfterDisconnect ==
  \A b \in BridgeIds :
    conn[sessions[bridges[b].sess].client] = "closed" =>
      ~Live(b) /\ ~bridges[b].timer

\* C13: a registry entry is never replaced: while a connection has a record,
\* a start_interview on it leaves that record registered
C13_NoReplace ==
  [][\A c \in Clients :
       activeSessions[c] # 0 => activeSessions'[c] \in {activeSessions[c], 0}]_vars

\* C14: the index update made at currentQuestion = totalQuestions reports the
\* session complete, and a row whose index is already past totalQuestions is
\* never advanced again
C14_NoAdvancePastComplete ==
  [][/\ \A s \in SessIds :
          (/\ Row(s).currentQuestion = Row(s).totalQuestions
           /\ Row(s)'.currentQuestion # Row(s).currentQuestion) =>
            \E i \in 1..Len(finalizes'[s]) : finalizes'[s][i].pc = "mark"
     /\ \A id \in DOMAIN db :
          db[id].currentQuestion > db[id].totalQuestions =>
            db'[id].currentQuestion = db[id].currentQuestion]_vars

\* C15: an end-of-turn signal delivered while a flag is true or the trimmed
\* buffer has fewer than 3 characters, and a finish_recording delivered while
\* a flag is true or the buffer is empty, change nothing the gateway or the
\* database holds and emit nothing
C15_DroppedIsNoOp ==
  [][/\ \A b \in BridgeIds :
          (/\ Utterance(b)
           /\ \/ Flagged(bridges[b].sess)
              \/ Len(Trim(sessions[bridges[b].sess].transcript)) < MinAnswerLen)
          => UNCHANGED prog /\ out' = NoOut
     /\ \A c \in Clients :
          (/\ HandleFinishRecording(c)
           /\ activeSessions[c] # 0
           /\ \/ Flagged(activeSessions[c])
              \/ Trim(sessions[activeSessions[c]].transcript) = <<>>)
          => UNCHANGED prog /\ out' = NoOut]_vars

\* C15: an open bridge whose session has no flag set and a buffer of one or
\* two characters after trimming, so that only the length test drops the signal
C15_ShortBufferAtEndOfTurn ==
  \E b \in BridgeIds :
    /\ bridges[b].ready = "open"
    /\ ~Flagged(bridges[b].sess)
    /\ Len(Trim(sessions[bridges[b].sess].transcript)) \in 1..(MinAnswerLen - 1)

\* C16: the step that admits a finalize sets both flags, takes the trimmed
\* buffer as the answer and leaves the buffer empty, and the step that ends a
\* finalize leaves the buffer (the fragments delivered meanwhile) as it is
C16_AdmissionClearsBuffer ==
  [][\A s \in SessIds :
       /\ Admitted(s) =>
            /\ sessions'[s].isFinalizing /\ sessions'[s].isProcessing
            /\ finalizes'[s][Len(finalizes'[s])].answer = Trim(sessions[s].transcript)
            /\ sessions'[s].transcript = <<>>
       /\ Ended(s) => sessions'[s].transcript = sessions[s].transcript]_vars

\* t occurs in s as a contiguous run
Contains(s, t) ==
  \E i \in 1..(Len(s) - Len(t) + 1) : SubSeq(s, i, i + Len(t) - 1) = t

\* C17: when a finalize ends, by returning or in the error handler, the
\* buffer no longer contains the answer that finalize submitted
C17_BufferClearedOnEnd ==
  [][\A s \in SessIds :
       Ended(s) =>
         \A i \in 1..Len(finalizes[s]) :
           ~Contains(sessions'[s].transcript, finalizes[s][i].answer)]_vars

\* a bridge created for a session that already had one
Reopened(b) == \E a \in BridgesOf(bridges[b].sess) : a < b

\* C18: a send failure replaces the bridge only when the bridge is not open,
\* and a session never has two reopened bridges still connecting (a failure
\* that follows a reopen attempt still pending opens no further bridge)
C18_OneReopen ==
  /\ [][\A s \in SessIds :
          sessions[s].liveSTT # 0 /\ sessions'[s].liveSTT # sessions[s].liveSTT =>
            bridges[sessions[s].liveSTT].ready # "open"]_vars
  /\ [](\A s \in SessIds :
          Cardinality({b \in BridgesOf(s) :
             Reopened(b) /\ bridges[b].ready = "connecting"}) <= 1)

ErrorTo(c) == [client |-> c, evs |-> <<"interview_error">>]

\* C19: an audio_chunk or finish_recording on a connection without a session
\* record, and a get_history for an id no row has, emit interview_error to the
\* sender and change nothing
C19_InvalidEventSurfaced ==
  [][\A c \in Clients :
       /\ HandleAudioChunk(c) /\ activeSessions[c] = 0 =>
            out' = ErrorTo(c) /\ UNCHANGED prog
       /\ HandleFinishRecording(c) /\ activeSessions[c] = 0 =>
            out' = ErrorTo(c) /\ UNCHANGED prog
       /\ \A id \in 0..MaxSessions :
            HandleGetHistory(c, id) /\ id \notin DOMAIN db =>
              out' = ErrorTo(c) /\ UNCHANGED prog]_vars

Completion(c) == [client |-> c, evs |-> <<"answer_saved", "interview_completed">>]
Events(o) == {o.evs[k] : k \in 1..Len(o.evs)}

C21_GetHistoryReadOnly ==
  [][\A c \in Clients, id \in 0..MaxSessions :
       HandleGetHistory(c, id) =>
         /\ UNCHANGED <<prog, obs>>
         /\ out'.client = c
         /\ out'.evs \in {<<"interview_history">>, <<"interview_error">>}]_vars

\* C21: the history of an existing row has just been sent to a client whose
\* session has a finalize in flight
C21_HistoryDuringFinalize ==
  /\ out.evs = <<"interview_history">>
  /\ activeSessions[out.client] # 0
  /\ Len(finalizes[activeSessions[out.client]]) = 1

\* C22: generateAllQuestions returns exactly as many questions as requested:
\* the parsed questions in the provider's order, cut at the requested count,
\* and the generic question in every place the provider left empty
C22_ExactlyCount ==
  calc.op = "generateAllQuestions" /\ calc.pc = "done" =>
    LET parsed == ParseQuestions(calc.lines)
    IN /\ Len(calc.bank) = calc.count
       /\ \A i \in 1..calc.count :
            calc.bank[i] = IF i <= Len(parsed) THEN parsed[i] ELSE FallbackQuestion

\* C22: a call has returned for a reply that had more questions than asked
\* for, among lines that are not questions
C22_TruncatedReply ==
  /\ calc.op = "generateAllQuestions" /\ calc.pc = "done"
  /\ Len(ParseQuestions(calc.lines)) > calc.count
  /\ Len(calc.lines) > Len(ParseQuestions(calc.lines))

\* C23: processTranscript and processAudioInput each report the session
\* complete exactly when the incremented index is greater than totalQuestions
C23_SameCompletionTest ==
  calc.op \in Advancing /\ calc.pc = "done" =>
    (calc.complete <=> calc.cur > calc.total)

\* the fragments joined by single spaces
RECURSIVE JoinFrags(_)
JoinFrags(fs) ==
  IF fs = <<>> THEN <<>>
  ELSE IF Len(fs) = 1 THEN fs[1]
  ELSE JoinFrags(SubSeq(fs, 1, Len(fs) - 1)) \o <<" ">> \o fs[Len(fs)]

\* C24: the buffer is the non-empty final fragments delivered since it was
\* last cleared, in delivery order with one space between them; an interim
\* transcript and an empty final fragment leave every session as it is
C24_BufferIsJoinedFragments ==
  /\ [](\A s \in SessIds : sessions[s].transcript = JoinFrags(obs[s].frags))
  /\ [][\A b \in BridgeIds :
          /\ \A text \in Frags : InterimTranscript(b, text) => UNCHANGED sessions
          /\ FinalTranscript(b, <<>>) => UNCHANGED sessions]_vars

\* C24: two fragments were delivered to a session since the last clear, after
\* an earlier turn's buffer was cleared
C24_TwoFragments ==
  \E s \in SessIds :
    /\ Len(obs[s].frags) = 2
    /\ obs[s].shown > 1
    /\ out = [client |-> sessions[s].client, evs |-> <<"interim_transcript">>]

\* C25: both flags are true while a finalize is in flight, and they are
\* cleared only by the step that ends the finalize and issues its events (or
\* its interview_error) to the session's socket
C25_FlagsHeldUntilEmit ==
  /\ [](\A s \in SessIds :
          Len(finalizes[s]) > 0 =>
            sessions[s].isProcessing /\ sessions[s].isFinalizing)
  /\ [][\A s \in SessIds :
          (/\ Flagged(s)
           /\ ~sessions'[s].isProcessing \/ ~sessions'[s].isFinalizing)
          => /\ Ended(s)
             /\ out'.client = sessions[s].client
             /\ out'.evs # <<>>]_vars

\* C26: a keep-alive timer runs only for a connection that is open, and no
\* timer is scheduled for a bridge on which finish() has been called, also
\* when finish() came before the Open event
C26_NoTimerAfterFinish ==
  \A b \in BridgeIds :
    /\ bridges[b].timer => bridges[b].ready = "open"
    /\ bridges[b].finished => ~bridges[b].timer

\* C27: the step that emits interview_started leaves the connection with a
\* newly registered session whose flags are false and whose buffer is empty,
\* with one bridge, neither finished nor closed, a row at index 1, and the
\* first bank entry shown as question 1; the first question_audio of a
\* session is emitted only after its interview_started
C27_StartedSession ==
  [][\A c \in Clients :
       /\ out' = [client |-> c, evs |-> <<"interview_started">>] =>
            /\ Len(sessions') = Len(sessions) + 1
            /\ activeSessions'[c] = Len(sessions')
            /\ LET new == sessions'[Len(sessions')]
               IN /\ new.client = c
                  /\ ~new.isProcessing /\ ~new.isFinalizing
                  /\ new.transcript = <<>>
                  /\ new.liveSTT \in 1..Len(bridges')
                  /\ ~bridges'[new.liveSTT].finished
                  /\ bridges'[new.liveSTT].ready # "closed"
                  /\ {b \in 1..Len(bridges') : bridges'[b].sess = Len(sessions')}
                       = {new.liveSTT}
                  /\ db'[new.sessionId].currentQuestion = 1
                  /\ obs'[Len(sessions')].shown = 1
                  /\ obs'[Len(sessions')].shownQ = db'[new.sessionId].questions[1]
       /\ (out' = [client |-> c, evs |-> <<"question_audio">>] /\ out' # out) =>
            \E s \in SessIds : sessions[s].client = c /\ obs[s].shown >= 1]_vars

\* C27: interview_started has just been emitted
C27_JustStarted ==
  /\ out.evs = <<"interview_started">>
  /\ activeSessions[out.client] = Len(sessions)
  /\ starts[out.client].pc = "tts"

\* C28: in every state between two steps (at every await and between events)
\* the two flags of a session have the same value
C28_FlagsEqual ==
  \A s \in SessIds : sessions[s].isProcessing = sessions[s].isFinalizing

\* C28: a session whose flags were set, cleared by a failed finalize and set
\* again by the next admission
C28_SetClearedSet ==
  \E s \in SessIds :
    /\ sessions[s].isProcessing /\ sessions[s].isFinalizing
    /\ obs[s].errors = 1
    /\ obs[s].admitted = 2
    /\ Len(finalizes[s]) = 1

TurnEvents == {"answer_saved", "next_question", "interview_completed"}

\* C29: from the state in which interview_completed has been emitted for a
\* session, every step leaves its flags true, admits no finalize for it,
\* leaves its persisted index as it is and emits no answer_saved,
\* next_question or interview_completed to its socket
C29_CompletedStaysClosed ==
  [][\A s \in SessIds :
       obs[s].completed > 0 =>
         /\ sessions'[s].isProcessing /\ sessions'[s].isFinalizing
         /\ finalizes'[s] = <<>>
         /\ Row(s)'.currentQuestion = Row(s).currentQuestion
         /\ obs'[s].completed = 1
         /\ out'.client = sessions[s].client => Events(out') \cap TurnEvents = {}]_vars

\* C29: a completed session whose finished bridge has not closed yet and has
\* delivered a buffer long enough for an end-of-turn
C29_LateSpeechAfterCompletion ==
  \E s \in SessIds :
    /\ obs[s].completed = 1
    /\ sessions[s].liveSTT # 0
    /\ bridges[sessions[s].liveSTT].ready = "open"
    /\ ~TooShort(sessions[s].transcript)

\* C30: the step that completes a session changes no registry entry other
\* than one that pointed at the completing session
C30_DeletesOwnEntry ==
  [][\A s \in SessIds :
       obs'[s].completed > obs[s].completed =>
         \A c \in Clients :
           activeSessions'[c] # activeSessions[c] => activeSessions[c] = s]_vars

\* a session object that the registry still points at
Registered(s) == \E c \in Clients : activeSessions[c] = s

\* C31: for a registered session with no finalize in flight, the index of the
\* last interview_started or next_question emitted equals the persisted
\* currentQuestion
C31_ShownIsPersisted ==
  \A s \in SessIds :
    (Registered(s) /\ finalizes[s] = <<>> /\ obs[s].shown > 0) =>
      obs[s].shown = Row(s).currentQuestion

RECURSIVE Alternates(_, _)
\* the roles of h from position i on are assistant at odd and user at even
\* positions
Alternates(h, i) ==
  IF i > Len(h) THEN TRUE
  ELSE /\ h[i].role = (IF i % 2 = 1 THEN "assistant" ELSE "user")
       /\ Alternates(h, i + 1)

UserEntries(h) == Cardinality({i \in 1..Len(h) : h[i].role = "user"})

\* C32: each persisted history starts with an assistant entry, alternates
\* assistant, user, ... and holds currentQuestion - 1 user entries
C32_HistoryAlternates ==
  \A r \in 1..Len(db) :
    db[r].history # <<>> =>
      /\ Alternates(db[r].history, 1)
      /\ (\A s \in SessIds : sessions[s].sessionId = r => finalizes[s] = <<>>) =>
           UserEntries(db[r].history) = db[r].currentQuestion - 1

\* the start_interview handler of c ends in this step with interview_error
StartFailed(c) ==
  /\ starts[c].pc # "idle"
  /\ starts'[c].pc = "idle"
  /\ out'.client = c
  /\ "interview_error" \in Events(out')

\* C33: when start_interview ends in interview_error, the connection has no
\* registry entry and none of its sessions has a bridge that is neither
\* finished nor closed
C33_StartAllOrNothing ==
  [][\A c \in Clients :
       StartFailed(c) =>
         /\ activeSessions'[c] = 0
         /\ \A b \in 1..Len(bridges') :
              sessions'[bridges'[b].sess].client = c =>
                bridges'[b].finished \/ bridges'[b].ready = "closed"]_vars

\* the appends of session s between their read and their write
Writing(s) ==
  {i \in 1..Len(finalizes[s]) : finalizes[s][i].pc \in {"recordWrite", "assistantWrite"}}

\* the entry the append i of session s is about to write
Pending(s, i) ==
  IF finalizes[s][i].pc = "recordWrite"
  THEN UserEntry(finalizes[s][i].answer)
  ELSE AssistantEntry(finalizes[s][i].q)

IsPrefix(h, g) == Len(h) <= Len(g) /\ SubSeq(g, 1, Len(h)) = h

\* C34: at most one append per row is between its read and its write and the
\* history it read is still the row's history; every step keeps each written
\* entry at its position, and an append that returns has added its entry
C34_AppendsDoNotOverlap ==
  /\ [](\A r \in 1..Len(db) :
          Cardinality({p \in SessIds \X (1..MaxInflight) :
                        sessions[p[1]].sessionId = r /\ p[2] \in Writing(p[1])}) <= 1)
  /\ [](\A s \in SessIds : \A i \in Writing(s) :
          finalizes[s][i].read = Row(s).history)
  /\ [][/\ \A r \in 1..Len(db) : IsPrefix(db[r].history, db'[r].history)
        /\ \A s \in SessIds : \A i \in Writing(s) :
             (Len(finalizes'[s]) = Len(finalizes[s]) /\ finalizes'[s][i].pc # finalizes[s][i].pc) =>
               Row(s)'.history = Append(Row(s).history, Pending(s, i))]_vars

\* C34: an append of a session with two live bridges is between its read and
\* its write, on a history that already holds an answer
C34_AppendWithDuplicateBridges ==
  \E s \in SessIds :
    /\ Writing(s) # {}
    /\ Cardinality({b \in BridgesOf(s) : Live(b)}) = 2
    /\ UserEntries(Row(s).history) >= 1

====
